---- MODULE Spec2Model ----
(***************************************************************************)
(* Selection / editing state machine of GltfModelUI                        *)
(* (src/src/scene_graph_ui.cpp): selectNode, the per-frame render() pass   *)
(* (tree rows with their click handlers, then the detail editor of the     *)
(* selected entity), the Open-Ancestor set, the one-shot scroll flag and   *)
(* the dirty flags.                                                        *)
(*                                                                         *)
(* Dear ImGui and tinygltf are collaborators: of ImGui the model keeps the *)
(* open/closed storage of the tree rows (keyed by the ID-stack path of a   *)
(* row) and takes the user's input of a frame as the parameters of render. *)
(***************************************************************************)
EXTENDS Integers, Sequences, FiniteSets, TLC

VARIABLES doc,             \* which Scene Document m_model holds (fixed in a behaviour)
          nodes,           \* m_model.nodes[i]: element counts of matrix/translation/rotation/scale
          lights,          \* m_model.lights[i].spot: innerConeAngle, outerConeAngle
          materials,       \* m_model.materials[i]: its stored values, its extension blocks
          m_selectType,    \* "eNode" | "eMaterial" | "eLight"
          m_selectedIndex, \* int, -1 (or any negative) = nothing selected
          m_openNodes,     \* std::unordered_set<int>
          m_doScroll,      \* one-shot scroll flag
          m_changes,       \* set of dirty flags that are set
          imguiOpen,       \* ImGui storage: the tree rows whose stored state is "open"
          walk,            \* the call stack of a traversal taken call by call (SpecWalk)
          lastOp,          \* history: the operation that produced this state
          hist             \* history: scroll requests counted since selectNode / selection change

vars == <<doc, nodes, lights, materials, m_selectType, m_selectedIndex, m_openNodes,
          m_doScroll, m_changes, imguiOpen, walk, lastOp, hist>>

----------------------------------------------------------------------------
(* Bounds *)

\* stored cone angles (doubles) range over 0..MaxAngle; the even values are the floats
MaxAngle == 4
\* the scroll-request counters of hist saturate at MaxScrolls
MaxScrolls == 2
\* hist follows a run selectNode(x); click(x); ... for MaxClicks clicks
MaxClicks == 2
\* the call stack of a traversal holds at most MaxStack frames
MaxStack == 5

----------------------------------------------------------------------------
(* Scene Documents *)

\* a C++ vector as a function over 0..size-1
Arr(s) == [i \in 0 .. Len(s) - 1 |-> s[i + 1]]

\* tinygltf::Node storage: element counts of matrix / translation / rotation / scale,
\* and the KHR_node_visibility extension ("absent", "visible" or "hidden")
Xf(m, t, r, s, v) ==
  [matrix |-> m, translation |-> t, rotation |-> r, scale |-> s, visibility |-> v]

\* tinygltf::Node: children, mesh / light / camera references (-1 = absent)
Nd(ch, me, li, ca, xf) == [children |-> ch, mesh |-> me, light |-> li, camera |-> ca, xform |-> xf]

\* Document 1: one scene with roots <<3, 0>>; 3 -> 4 and A=0 -> B=1 -> C=2.
\* C carries a mesh whose primitives name materials -1, 0, 1 and 5 (2 materials),
\* node 4 a light, B a camera.
DocChain ==
  [ scenes    |-> << <<3, 0>> >>,
    nodes     |-> Arr(<< Nd(<<1>>, -1, -1, -1, Xf(16, 0, 0, 0, "absent")),
                         Nd(<<2>>, -1, -1,  0, Xf(0, 3, 4, 3, "absent")),
                         Nd(<<>>,   0, -1, -1, Xf(0, 0, 0, 0, "absent")),
                         Nd(<<4>>, -1, -1, -1, Xf(12, 2, 0, 3, "hidden")),
                         Nd(<<>>,  -1,  0, -1, Xf(16, 3, 4, 3, "visible")) >>),
    meshes    |-> Arr(<< <<-1, 0, 1, 5>> >>),
    materials |-> 2,
    lights    |-> 1,
    cameras   |-> 1 ]

\* Document 2: a DAG, roots <<0, 1>> both with child 2; two lights, one material.
DocDag ==
  [ scenes    |-> << <<0, 1>> >>,
    nodes     |-> Arr(<< Nd(<<2>>, -1,  1, -1, Xf(0, 0, 0, 0, "absent")),
                         Nd(<<2>>,  0, -1, -1, Xf(16, 0, 0, 0, "absent")),
                         Nd(<<>>,  -1,  0, -1, Xf(0, 3, 4, 3, "absent")) >>),
    meshes    |-> Arr(<< <<3, -2>> >>),
    materials |-> 1,
    lights    |-> 2,
    cameras   |-> 0 ]

\* Document 3: two scenes; node 3 is reachable only from the root of the second.
DocTwoScenes ==
  [ scenes    |-> << <<0>>, <<2>> >>,
    nodes     |-> Arr(<< Nd(<<1>>, -1, -1, -1, Xf(0, 0, 0, 0, "absent")),
                         Nd(<<>>,  -1, -1, -1, Xf(16, 0, 0, 0, "absent")),
                         Nd(<<3>>, -1, -1,  0, Xf(0, 3, 0, 0, "hidden")),
                         Nd(<<>>,  -1,  0, -1, Xf(0, 0, 0, 0, "absent")) >>),
    meshes    |-> Arr(<< >>),
    materials |-> 1,
    lights    |-> 1,
    cameras   |-> 1 ]

\* Document 4: a branching tree, 0 -> {1, 2}, 1 -> 3; three materials.
DocBranch ==
  [ scenes    |-> << <<0>> >>,
    nodes     |-> Arr(<< Nd(<<1, 2>>, -1, -1, -1, Xf(0, 0, 0, 0, "absent")),
                         Nd(<<3>>,    -1, -1, -1, Xf(0, 0, 4, 0, "visible")),
                         Nd(<<>>,      0, -1, -1, Xf(16, 0, 0, 0, "absent")),
                         Nd(<<>>,     -1, -1, -1, Xf(0, 3, 4, 3, "absent")) >>),
    meshes    |-> Arr(<< <<2, 3, -1>> >>),
    materials |-> 3,
    lights    |-> 0,
    cameras   |-> 0 ]

\* Document 5: root 0 (a matrix, a mesh) with child 1 (malformed storage, a light, hidden).
DocSmall ==
  [ scenes    |-> << <<0>> >>,
    nodes     |-> Arr(<< Nd(<<1>>,  0, -1, -1, Xf(16, 0, 0, 0, "absent")),
                         Nd(<<>>,  -1,  0, -1, Xf(12, 2, 4, 0, "hidden")) >>),
    meshes    |-> Arr(<< <<0, 7>> >>),
    materials |-> 2,
    lights    |-> 1,
    cameras   |-> 0 ]

\* Document 6: a single node with a mesh (one primitive, one material) and a light.
DocLeaf ==
  [ scenes    |-> << <<0>> >>,
    nodes     |-> Arr(<< Nd(<<>>, 0, 0, -1, Xf(0, 3, 4, 3, "absent")) >>),
    meshes    |-> Arr(<< <<0>> >>),
    materials |-> 1,
    lights    |-> 1,
    cameras   |-> 0 ]

Docs == <<DocChain, DocDag, DocTwoScenes, DocBranch, DocSmall, DocLeaf>>

\* m_model
Model == Docs[doc]

NodeIds == DOMAIN Model.nodes

----------------------------------------------------------------------------
(* Selection, as the detail panel reads it *)

None == <<"None", -1>>

\* renderDetails dispatches on m_selectType only when m_selectedIndex > -1
SelectionOf(type, index) == IF index > -1 THEN <<type, index>> ELSE None

Selection == SelectionOf(m_selectType, m_selectedIndex)

----------------------------------------------------------------------------
(* Open-Ancestor computation *)

\* markOpenNodes, the step taken once a child's search has returned true
MarkFound(nodeIndex, child, openNodes) == openNodes \cup {nodeIndex}

RECURSIVE markOpenNodes(_, _, _)
RECURSIVE markChildren(_, _, _, _)

\* bool markOpenNodes(nodeIndex, targetNodeIndex, openNodes): <<found, openNodes>>
markOpenNodes(nodeIndex, targetNodeIndex, openNodes) ==
  IF nodeIndex = targetNodeIndex
  THEN <<TRUE, openNodes>>
  ELSE markChildren(nodeIndex, 1, targetNodeIndex, openNodes)

\* the loop over node.children, from the i-th child on
markChildren(nodeIndex, i, targetNodeIndex, openNodes) ==
  LET children == Model.nodes[nodeIndex].children IN
  IF i > Len(children)
  THEN <<FALSE, openNodes>>
  ELSE LET r == markOpenNodes(children[i], targetNodeIndex, openNodes) IN
       IF r[1]
       THEN <<TRUE, MarkFound(nodeIndex, children[i], r[2])>>
       ELSE markChildren(nodeIndex, i + 1, targetNodeIndex, r[2])

\* mutant: the loop without its break
RECURSIVE searchRoots_NoBreak(_, _, _, _)
searchRoots_NoBreak(roots, i, target, openNodes) ==
  IF i > Len(roots)
  THEN openNodes
  ELSE searchRoots_NoBreak(roots, i + 1, target, markOpenNodes(roots[i], target, openNodes)[2])

RECURSIVE searchRoots(_, _, _, _)
\* the loop of preprocessOpenNodes over the roots, from the i-th on, with its break
searchRoots(roots, i, target, openNodes) ==
  IF i > Len(roots)
  THEN openNodes
  ELSE LET r == markOpenNodes(roots[i], target, openNodes) IN
       IF r[1] THEN r[2] ELSE searchRoots(roots, i + 1, target, r[2])

\* preprocessOpenNodes with m_selectType, m_selectedIndex as given: the new m_openNodes
preprocessOpenNodes(selectType, selectedIndex) ==
  IF (selectedIndex < 0) \/ (selectType # "eNode")
  THEN {}
  ELSE searchRoots(Model.scenes[1], 1, selectedIndex, {})

----------------------------------------------------------------------------
(* History bookkeeping (not program state) *)

Bump(n) == IF n < MaxScrolls THEN n + 1 ELSE n

\* a SetScrollHereY call
CountScroll(h) == [h EXCEPT !.sinceSelect = Bump(@), !.sinceChange = Bump(@)]

\* the highlighted (selected node) row is painted
CountPaint(h) == [h EXCEPT !.paintedSelect = TRUE, !.paintedChange = TRUE]

\* the run selectNode(x); click(x); ... goes on with a click on node x, or ends
CountRun(h, last, ev, x) ==
  [h EXCEPT !.clicks = IF ev.type = "clickNode" /\ @ >= 0 /\ @ < MaxClicks /\ last.idx = x
                       THEN @ + 1 ELSE -1]

\* Selection went from `before` to `after`
CountChange(h, before, after) ==
  IF before = after THEN h ELSE [h EXCEPT !.sinceChange = 0, !.paintedChange = FALSE]

----------------------------------------------------------------------------
(* Tree Renderer: one frame of renderSceneGraph                            *)
(*                                                                         *)
(* st is the part of the object a frame's traversal changes:               *)
(*   type, index  m_selectType, m_selectedIndex                            *)
(*   doScroll     m_doScroll                                               *)
(*   openNodes    m_openNodes                                              *)
(*   open         ImGui's stored open rows                                 *)
(*   hit          the row the user's event names was painted               *)
(*   h            the history counters                                     *)
(* ev is the user's input of the frame: at most one row is clicked.        *)
(* A row is named by its ID-stack path <<scene, node, ..., node>>; the     *)
(* mesh row of a node by the node's path followed by -1.                   *)
(***************************************************************************)

NoEvent == [type |-> "idle", path |-> <<>>, k |-> 0]

\* mutant: a click on a row always selects it (no toggle to None)
ClickedIndex_NoToggle(selectType, selectedIndex, nodeIndex) == nodeIndex

\* the value the click handler of a node row assigns to m_selectedIndex
ClickedIndex(selectType, selectedIndex, nodeIndex) ==
  IF (selectType = "eNode") /\ (selectedIndex = nodeIndex) THEN -1 ELSE nodeIndex

\* mutant: a row's click handler that also resets the Open-Ancestor set
Select_Reset(st, type, index) ==
  [st EXCEPT !.type = type, !.index = index, !.hit = TRUE, !.openNodes = {},
             !.h = CountChange(@, SelectionOf(st.type, st.index), SelectionOf(type, index))]

\* an assignment of m_selectType, m_selectedIndex by a row's click handler
Select(st, type, index) ==
  [st EXCEPT !.type = type, !.index = index, !.hit = TRUE,
             !.h = CountChange(@, SelectionOf(st.type, st.index), SelectionOf(type, index))]

\* mutant: std::clamp with the bounds not applied below 0
Clamp_NoLow(v, lo, hi) == IF hi < v THEN hi ELSE v

\* std::clamp(v, lo, hi)
Clamp(v, lo, hi) == IF v < lo THEN lo ELSE IF hi < v THEN hi ELSE v

\* mutant: the scroll request does not consume the flag
Highlight_Sticky(st) ==
  IF st.doScroll
  THEN [st EXCEPT !.h = CountScroll(CountPaint(@))]
  ELSE [st EXCEPT !.h = CountPaint(@)]

\* the highlighted row: SetScrollHereY once, when m_doScroll is set
Highlight(st) ==
  IF st.doScroll
  THEN [st EXCEPT !.doScroll = FALSE, !.h = CountScroll(CountPaint(@))]
  ELSE [st EXCEPT !.h = CountPaint(@)]

\* renderPrimitive: a Selectable that selects the primitive's clamped material
renderPrimitive(st, path, material, primID, ev) ==
  LET materialID == Clamp(material, 0, Model.materials - 1) IN
  IF ev.type = "clickPrim" /\ ev.path = path /\ ev.k = primID
  THEN Select(st, "eMaterial", materialID)
  ELSE st

RECURSIVE renderPrimitives(_, _, _, _, _)
\* the loop of renderMesh over mesh.primitives, from the i-th on (primID = i - 1)
renderPrimitives(st, path, prims, i, ev) ==
  IF i > Len(prims)
  THEN st
  ELSE renderPrimitives(renderPrimitive(st, path, prims[i], i - 1, ev), path, prims, i + 1, ev)

\* renderMesh (called when node.mesh >= 0): a tree row of its own; its primitives are
\* painted when it is open
MeshTree(st, key, path, ev) ==
  IF ev.type = "toggleMesh" /\ ev.path = path
  THEN [st EXCEPT !.open = IF key \in @ THEN @ \ {key} ELSE @ \cup {key}, !.hit = TRUE]
  ELSE st

MeshContent(st, key, path, meshIndex, ev) ==
  IF key \in st.open THEN renderPrimitives(st, path, Model.meshes[meshIndex], 1, ev) ELSE st

renderMesh(st, path, meshIndex, ev) ==
  IF meshIndex >= 0
  THEN MeshContent(MeshTree(st, path \o <<-1>>, path, ev), path \o <<-1>>, path, meshIndex, ev)
  ELSE st

\* mutant: the light row selects the node kind
renderLight_AsNode(st, path, lightIndex, ev) ==
  IF lightIndex >= 0 /\ ev.type = "clickLight" /\ ev.path = path
  THEN Select(st, "eNode", lightIndex)
  ELSE st

\* renderLight (called when node.light >= 0): a Selectable that selects the light
renderLight(st, path, lightIndex, ev) ==
  IF lightIndex >= 0 /\ ev.type = "clickLight" /\ ev.path = path
  THEN Select(st, "eLight", lightIndex)
  ELSE st

\* renderCamera (called when node.camera >= 0): text only, the row has no click handler
renderCamera(st, path, cameraIndex, ev) ==
  IF cameraIndex >= 0 /\ ev.type = "clickCamera" /\ ev.path = path
  THEN [st EXCEPT !.hit = TRUE]
  ELSE st

\* IsItemClicked() && !IsItemToggledOpen() for the node row at path
NodeClicked(path, ev) == ev.type = "clickNode" /\ ev.path = path

\* renderNode, the forced open state: SetNextItemOpen(true) for a member of m_openNodes
NodeForceOpen(st, path, nodeIndex) ==
  IF nodeIndex \in st.openNodes THEN [st EXCEPT !.open = @ \cup {path}] ELSE st

\* renderNode, the highlight of the selected node's row
NodeHighlight(st, nodeIndex) ==
  IF (st.type = "eNode") /\ (st.index = nodeIndex) THEN Highlight(st) ELSE st

\* renderNode, TreeNodeEx: a click on the arrow (or a double click) toggles the stored state
NodeTree(st, path, ev) ==
  IF ev.type = "toggleNode" /\ ev.path = path
  THEN [st EXCEPT !.open = IF path \in @ THEN @ \ {path} ELSE @ \cup {path}, !.hit = TRUE]
  ELSE st

\* mutant: the click handler assigns the index and leaves the kind as it is
NodeSelect_KeepType(st, path, nodeIndex, ev) ==
  IF NodeClicked(path, ev)
  THEN Select(st, st.type, ClickedIndex(st.type, st.index, nodeIndex))
  ELSE st

\* renderNode, the click handler of the row
NodeSelect(st, path, nodeIndex, ev) ==
  IF NodeClicked(path, ev)
  THEN Select(st, "eNode", ClickedIndex(st.type, st.index, nodeIndex))
  ELSE st

\* renderNode, the mesh, light and camera rows of an open node
NodeParts(st, path, node, ev) ==
  renderCamera(
    renderLight(
      renderMesh(st, path, node.mesh, ev),
      path, node.light, ev),
    path, node.camera, ev)

RECURSIVE renderNode(_, _, _, _)
RECURSIVE renderChildren(_, _, _, _, _)

\* renderNode, what is painted under the row when TreeNodeEx returned true
NodeContent(st, path, node, ev) ==
  IF path \in st.open
  THEN renderChildren(NodeParts(st, path, node, ev), path, node.children, 1, ev)
  ELSE st

\* renderNode for the row at path (whose last element is nodeIndex)
renderNode(st, path, nodeIndex, ev) ==
  NodeContent(
    NodeSelect(
      NodeTree(NodeHighlight(NodeForceOpen(st, path, nodeIndex), nodeIndex), path, ev),
      path, nodeIndex, ev),
    path, Model.nodes[nodeIndex], ev)

\* the loop over node.children (or a scene's roots), from the i-th on
renderChildren(st, path, children, i, ev) ==
  IF i > Len(children)
  THEN st
  ELSE renderChildren(renderNode(st, path \o <<children[i]>>, children[i], ev),
                      path, children, i + 1, ev)

RECURSIVE renderScenes(_, _, _)
\* the loop of renderSceneGraph over m_model.scenes (a scene row is always open)
renderScenes(st, sceneID, ev) ==
  IF sceneID >= Len(Model.scenes)
  THEN st
  ELSE renderScenes(renderChildren(st, <<sceneID>>, Model.scenes[sceneID + 1], 1, ev),
                    sceneID + 1, ev)

renderSceneGraph(ev) ==
  renderScenes([type |-> m_selectType, index |-> m_selectedIndex, doScroll |-> m_doScroll,
                openNodes |-> m_openNodes, open |-> imguiOpen, hit |-> FALSE, h |-> hist],
               0, ev)

----------------------------------------------------------------------------
(* Detail Editors                                                          *)
(*                                                                         *)
(* ed is what the controls of the detail panel report in the frame:        *)
(*   modif  a translation / rotation / scale drag (node), a material       *)
(*          control, or the type / color / intensity / radius of a light   *)
(*   vis    the "Visible" checkbox or the "Add Visibility" button          *)
(*   inner, outer  the value the cone slider was dragged to, -1 = untouched*)
(*   ext    the extension block whose control the user drags, or "none"    *)
(***************************************************************************)

NoEdit == [modif |-> FALSE, vis |-> FALSE, inner |-> -1, outer |-> -1, ext |-> "none"]

\* static_cast<float>(double): the floats are the even values, rounding is monotone
ToFloat(d) == 2 * (d \div 2)

Floats == {f \in 0 .. MaxAngle : ToFloat(f) = f}

\* std::max(a, b) and std::min(a, b)
StdMax(a, b) == IF a < b THEN b ELSE a
StdMin(a, b) == IF b < a THEN b ELSE a

\* mutant: the edit stores translation / rotation / scale and keeps the matrix
StoreTransform_KeepMatrix(node) ==
  [node EXCEPT !.translation = 3, !.rotation = 4, !.scale = 3]

\* the write-back of renderNodeDetails when a transform control changed
StoreTransform(node) ==
  [node EXCEPT !.translation = 3, !.rotation = 4, !.scale = 3, !.matrix = 0]

\* the working transform before getNodeTransform has read anything: the defaults
DefaultTransform == [translation |-> "zero", rotation |-> "identity", scale |-> "unit"]

\* nothing read: no node editor ran
NoTransform == [translation |-> "none", rotation |-> "none", scale |-> "none"]

\* mutant: any stored matrix is decomposed, any stored field is read
getNodeTransform_AnySize(node) ==
  IF node.matrix > 0
  THEN [translation |-> "decomposed", rotation |-> "decomposed", scale |-> "decomposed"]
  ELSE [translation |-> IF node.translation > 0 THEN "stored" ELSE "zero",
        rotation    |-> IF node.rotation > 0 THEN "stored" ELSE "identity",
        scale       |-> IF node.scale > 0 THEN "stored" ELSE "unit"]

\* getNodeTransform: where each of translation, rotation, scale of the working transform
\* comes from ("decomposed" from the matrix, "stored" from the node's own field, or the
\* default it was initialised with)
getNodeTransform(node) ==
  IF node.matrix = 16
  THEN [DefaultTransform EXCEPT !.scale = "decomposed", !.rotation = "decomposed",
                                !.translation = "decomposed"]
  ELSE [DefaultTransform EXCEPT
          !.translation = IF node.translation = 3 THEN "stored" ELSE @,
          !.rotation    = IF node.rotation = 4 THEN "stored" ELSE @,
          !.scale       = IF node.scale = 3 THEN "stored" ELSE @]

\* renderNodeDetails: <<the node afterwards, the dirty flags it sets, the working
\* transform its controls showed>>
renderNodeDetails(node, ed) ==
  LET hasVisibility == node.visibility # "absent"
      shown  == getNodeTransform(node)
      node1  == IF ed.modif THEN StoreTransform(node) ELSE node
      flags1 == IF ed.modif THEN {"eNodeTransformDirty"} ELSE {}
  IN IF hasVisibility
     THEN IF ed.vis
          THEN <<[node1 EXCEPT !.visibility = IF @ = "visible" THEN "hidden" ELSE "visible"],
                 flags1 \cup {"eNodeVisibleDirty"}, shown>>
          ELSE <<node1, flags1, shown>>
     ELSE IF ed.vis
          THEN <<[node1 EXCEPT !.visibility = "visible"], flags1, shown>>
          ELSE <<node1, flags1, shown>>

\* mutant: only the outer angle is clamped, before its own slider runs
ConeAngles_OneSided(innerAngle, outerAngle, ed) ==
  LET inner1 == IF ed.inner # -1 THEN ed.inner ELSE innerAngle
      outer1 == StdMax(inner1, outerAngle)
      outer2 == IF ed.outer # -1 THEN ed.outer ELSE outer1
  IN <<inner1, outer2>>

\* the two cone sliders of renderLightDetails with the clamp after each
ConeAngles(innerAngle, outerAngle, ed) ==
  LET inner1 == IF ed.inner # -1 THEN ed.inner ELSE innerAngle
      outer1 == StdMax(inner1, outerAngle)
      outer2 == IF ed.outer # -1 THEN ed.outer ELSE outer1
      inner2 == StdMin(inner1, outer2)
  IN <<inner2, outer2>>

\* renderLightDetails: LightUI::toUI, the controls, LightUI::fromUI (always), the flag
renderLightDetails(light, ed) ==
  LET ui    == ConeAngles(ToFloat(light.innerConeAngle), ToFloat(light.outerConeAngle), ed)
      modif == ed.modif \/ ed.inner # -1 \/ ed.outer # -1
  IN <<[light EXCEPT !.innerConeAngle = ui[1], !.outerConeAngle = ui[2]],
       IF modif THEN {"eLightDirty"} ELSE {}>>

\* the extension blocks renderMaterial has controls for, in the order of its blocks
MaterialExtensions ==
  << "KHR_materials_emissive_strength", "KHR_materials_clearcoat", "KHR_materials_sheen",
     "KHR_materials_transmission", "KHR_materials_ior", "KHR_materials_specular",
     "KHR_materials_volume", "KHR_materials_anisotropy", "KHR_materials_iridescence",
     "KHR_materials_dispersion" >>

ExtensionNames == {MaterialExtensions[i] : i \in 1 .. Len(MaterialExtensions)}

\* tinygltf::Material: value stands for the stored numbers (factors, alpha mode, the
\* contents of the extension blocks), extensions for the names of the blocks present
Mat(ext) == [value |-> 0, extensions |-> ext]

\* a control that reported a change stored a value other than the one it showed
StoreValue(material) == [material EXCEPT !.value = 1 - @]

\* tinygltf::utils::set<Extension>(material, ...): material.extensions[name] = the block
setExtension(material, name) ==
  [StoreValue(material) EXCEPT !.extensions = @ \cup {name}]

\* renderMaterial, the basic controls: <<the material afterwards, the dirty flags set>>
MaterialBasic(material, ed) ==
  IF ed.modif THEN <<StoreValue(material), {"eMaterialDirty"}>> ELSE <<material, {}>>

\* mutant: the controls of a block are shown whether the material has the block or not
ExtensionBlock_Create(r, name, ed) ==
  IF ed.ext = name
  THEN <<setExtension(r[1], name), r[2] \cup {"eMaterialDirty"}>>
  ELSE r

\* renderMaterial, the block of one extension: its controls exist when the material has it
ExtensionBlock(r, name, ed) ==
  IF name \in r[1].extensions
  THEN IF ed.ext = name
       THEN <<setExtension(r[1], name), r[2] \cup {"eMaterialDirty"}>>
       ELSE r
  ELSE r

RECURSIVE ExtensionBlocks(_, _, _)
\* renderMaterial, the extension blocks from the i-th on
ExtensionBlocks(r, i, ed) ==
  IF i > Len(MaterialExtensions)
  THEN r
  ELSE ExtensionBlocks(ExtensionBlock(r, MaterialExtensions[i], ed), i + 1, ed)

\* renderMaterial: <<the material afterwards, the dirty flags it sets>>
renderMaterial(material, ed) == ExtensionBlocks(MaterialBasic(material, ed), 1, ed)

\* m_model.nodes / materials / lights [m_selectedIndex] with an index outside the array:
\* undefined behaviour, kept as an outcome of its own
OutOfRange(type, index) ==
  \/ type = "eNode" /\ index \notin DOMAIN nodes
  \/ type = "eMaterial" /\ index \notin DOMAIN materials
  \/ type = "eLight" /\ index \notin DOMAIN lights

\* renderDetails: the editor of the selected entity, if any
renderDetails(type, index, ed) ==
  IF index > -1 /\ OutOfRange(type, index)
  THEN [editor |-> "out of range", nodes |-> nodes, lights |-> lights,
        materials |-> materials, flags |-> {}, shown |-> NoTransform]
  ELSE IF index > -1 /\ type = "eNode"
  THEN LET r == renderNodeDetails(nodes[index], ed) IN
       [editor |-> "eNode", nodes |-> [nodes EXCEPT ![index] = r[1]], lights |-> lights,
        materials |-> materials, flags |-> r[2], shown |-> r[3]]
  ELSE IF index > -1 /\ type = "eMaterial"
  THEN LET r == renderMaterial(materials[index], ed) IN
       [editor |-> "eMaterial", nodes |-> nodes, lights |-> lights,
        materials |-> [materials EXCEPT ![index] = r[1]], flags |-> r[2],
        shown |-> NoTransform]
  ELSE IF index > -1 /\ type = "eLight"
  THEN LET r == renderLightDetails(lights[index], ed) IN
       [editor |-> "eLight", nodes |-> nodes, lights |-> [lights EXCEPT ![index] = r[1]],
        materials |-> materials, flags |-> r[2], shown |-> NoTransform]
  ELSE [editor |-> "none", nodes |-> nodes, lights |-> lights, materials |-> materials,
        flags |-> {}, shown |-> NoTransform]

\* the extension controls the user reaches for (present on the material or not)
ExtensionInputs ==
  {"KHR_materials_emissive_strength", "KHR_materials_clearcoat", "KHR_materials_dispersion"}

\* the inputs the controls of an editor can report
EditorInputs(editor) ==
  CASE editor = "eNode"     -> {[NoEdit EXCEPT !.modif = m, !.vis = v] : m \in BOOLEAN, v \in BOOLEAN}
    [] editor = "eMaterial" -> {[NoEdit EXCEPT !.modif = m, !.ext = e] :
                                 m \in BOOLEAN, e \in ExtensionInputs \cup {"none"}}
    [] editor = "eLight"    -> {[NoEdit EXCEPT !.modif = m, !.inner = i, !.outer = o] :
                                 m \in BOOLEAN, i \in Floats \cup {-1}, o \in Floats \cup {-1}}
    [] OTHER               -> {NoEdit}

----------------------------------------------------------------------------
(* The user's events *)

RECURSIVE PathsUnder(_, _, _)
\* the ID-stack paths of the node rows under path, over children from the i-th on
PathsUnder(path, children, i) ==
  IF i > Len(children)
  THEN {}
  ELSE LET p == path \o <<children[i]>> IN
       {p} \cup PathsUnder(p, Model.nodes[children[i]].children, 1)
           \cup PathsUnder(path, children, i + 1)

RowPaths ==
  UNION {PathsUnder(<<s - 1>>, Model.scenes[s], 1) : s \in 1 .. Len(Model.scenes)}

NodeAt(path) == Model.nodes[path[Len(path)]]

ToggleEvents ==
  {[type |-> "toggleNode", path |-> p, k |-> 0] : p \in RowPaths}
  \cup {[type |-> "toggleMesh", path |-> p, k |-> 0] : p \in {q \in RowPaths : NodeAt(q).mesh >= 0}}

ClickEvents ==
  {[type |-> "clickNode", path |-> p, k |-> 0] : p \in RowPaths}
  \cup {[type |-> "clickLight", path |-> p, k |-> 0] : p \in {q \in RowPaths : NodeAt(q).light >= 0}}
  \cup {[type |-> "clickCamera", path |-> p, k |-> 0] : p \in {q \in RowPaths : NodeAt(q).camera >= 0}}
  \cup UNION {{[type |-> "clickPrim", path |-> p, k |-> k] :
                 k \in 0 .. Len(Model.meshes[NodeAt(p).mesh]) - 1} :
              p \in {q \in RowPaths : NodeAt(q).mesh >= 0}}

\* the index the event's row shows: node, light, camera, or the primitive's material
EventIndex(ev) ==
  CASE ev.type \in {"clickNode", "toggleNode", "toggleMesh"} -> ev.path[Len(ev.path)]
    [] ev.type = "clickLight"  -> NodeAt(ev.path).light
    [] ev.type = "clickCamera" -> NodeAt(ev.path).camera
    [] ev.type = "clickPrim"   -> Model.meshes[NodeAt(ev.path).mesh][ev.k + 1]
    [] OTHER                   -> -1

----------------------------------------------------------------------------
(* Operations *)

\* mutant: selectNode without its own m_openNodes.clear()
selectNode_KeepOpen(nodeIndex) ==
  /\ m_selectType' = "eNode"
  /\ m_selectedIndex' = nodeIndex
  /\ m_openNodes' = IF nodeIndex >= 0 THEN preprocessOpenNodes("eNode", nodeIndex) ELSE m_openNodes
  /\ m_doScroll' = TRUE
  /\ hist' = [CountChange(hist, Selection, SelectionOf("eNode", nodeIndex))
                EXCEPT !.armed = TRUE, !.sinceSelect = 0, !.paintedSelect = FALSE,
                       !.clicks = IF nodeIndex >= 0 THEN 0 ELSE -1]
  /\ lastOp' = [op |-> "selectNode", idx |-> nodeIndex, editor |-> "none",
                modif |-> FALSE, vis |-> FALSE, ext |-> "none", shown |-> NoTransform]
  /\ UNCHANGED <<doc, nodes, lights, materials, m_changes, imguiOpen, walk>>

\* GltfModelUI::selectNode(nodeIndex)
selectNode(nodeIndex) ==
  /\ m_selectType' = "eNode"
  /\ m_selectedIndex' = nodeIndex
  /\ m_openNodes' = IF nodeIndex >= 0 THEN preprocessOpenNodes("eNode", nodeIndex) ELSE {}
  /\ m_doScroll' = TRUE
  /\ hist' = [CountChange(hist, Selection, SelectionOf("eNode", nodeIndex))
                EXCEPT !.armed = TRUE, !.sinceSelect = 0, !.paintedSelect = FALSE,
                       !.clicks = IF nodeIndex >= 0 THEN 0 ELSE -1]
  /\ lastOp' = [op |-> "selectNode", idx |-> nodeIndex, editor |-> "none",
                modif |-> FALSE, vis |-> FALSE, ext |-> "none", shown |-> NoTransform]
  /\ UNCHANGED <<doc, nodes, lights, materials, m_changes, imguiOpen, walk>>

\* mutant: a set of one flag resets the others
SetFlags_Exclusive(changes, flags) == IF flags = {} THEN changes ELSE flags

\* m_changes.set(flag) for the flags of a frame: bits are set, none is cleared
SetFlags(changes, flags) == changes \cup flags

\* render(), the assignments of a frame: st from the tree, d from the detail panel
Commit(st, d, ev, ed) ==
  /\ ev.type # "idle" => st.hit
  /\ m_selectType' = st.type
  /\ m_selectedIndex' = st.index
  /\ m_doScroll' = st.doScroll
  /\ imguiOpen' = st.open
  /\ hist' = CountRun(st.h, lastOp, ev, EventIndex(ev))
  /\ nodes' = d.nodes
  /\ lights' = d.lights
  /\ materials' = d.materials
  /\ m_changes' = SetFlags(m_changes, d.flags)
  /\ m_openNodes' = st.openNodes
  /\ lastOp' = [op |-> ev.type, idx |-> EventIndex(ev), editor |-> d.editor,
                modif |-> ed.modif \/ ed.inner # -1 \/ ed.outer # -1, vis |-> ed.vis,
                ext |-> ed.ext, shown |-> d.shown]
  /\ UNCHANGED <<doc, walk>>

\* render(), the detail panel after the tree
Details(st, ev, ed) ==
  /\ ed \in EditorInputs(IF st.index > -1 THEN st.type ELSE "none")
  /\ Commit(st, renderDetails(st.type, st.index, ed), ev, ed)

\* GltfModelUI::render(): the tree with the user's event ev, then the detail panel with ed
render(ev, ed) == Details(renderSceneGraph(ev), ev, ed)

\* the arguments selectNode is called with: nothing (-1, -2) or a node of the document
SelectInputs == {-2, -1} \cup NodeIds

----------------------------------------------------------------------------
(* The two recursions taken call by call                                   *)
(*                                                                         *)
(* walk.stack holds one frame [node, i] per active call of markOpenNodes   *)
(* or renderNode: i = 0 on entry, afterwards the position in node.children *)
(* of the next child to call.  walk.ret is the value a call of             *)
(* markOpenNodes has just returned, walk.open the openNodes argument,      *)
(* walk.scene / walk.r the position of the loops over scenes and roots,    *)
(* walk.peak the deepest stack of the traversal.  The mesh, light and      *)
(* camera rows of renderNode do not recurse and take no frame.             *)
(***************************************************************************)

IdleWalk ==
  [op |-> "idle", target |-> -1, scene |-> 0, r |-> 1, stack |-> <<>>, ret |-> "none",
   open |-> {}, peak |-> 0]

\* mutant: the recursive call is made with the node itself
Callee_Self(nodeIndex, i) == nodeIndex

\* the node the recursive call in the loop over node.children is made with
Callee(nodeIndex, i) == Model.nodes[nodeIndex].children[i]

\* a call: a new frame on the stack
Call(w, nodeIndex) ==
  [w EXCEPT !.stack = Append(@, [node |-> nodeIndex, i |-> 0]), !.ret = "none",
            !.peak = IF Len(w.stack) + 1 > @ THEN Len(w.stack) + 1 ELSE @]

\* a return: the frame is dropped, v is the value returned
Return(w, v) == [w EXCEPT !.stack = SubSeq(@, 1, Len(@) - 1), !.ret = v]

\* the traversal's outermost loop has ended
Finish(w) == [w EXCEPT !.op = "idle", !.ret = "none", !.scene = 0, !.r = 1]

Top(w) == w.stack[Len(w.stack)]

SetTop(w, i) == [w EXCEPT !.stack[Len(w.stack)].i = i]

\* preprocessOpenNodes' loop over scenes[0].nodes with its break
SearchRootsNext(w) ==
  IF w.ret = "true" \/ w.r > Len(Model.scenes[1])
  THEN Finish(w)
  ELSE Call([w EXCEPT !.r = @ + 1], Model.scenes[1][w.r])

\* markOpenNodes in the frame on top of the stack
SearchFrameNext(w, nodeIndex, i) ==
  IF i = 0
  THEN IF nodeIndex = w.target THEN Return(w, "true") ELSE SetTop(w, 1)
  ELSE IF w.ret = "true"
  THEN Return([w EXCEPT !.open = MarkFound(nodeIndex, -1, @)], "true")
  ELSE IF w.ret = "false"
  THEN [SetTop(w, i + 1) EXCEPT !.ret = "none"]
  ELSE IF i > Len(Model.nodes[nodeIndex].children)
  THEN Return(w, "false")
  ELSE Call(w, Callee(nodeIndex, i))

SearchNext(w) ==
  IF w.stack = <<>> THEN SearchRootsNext(w) ELSE SearchFrameNext(w, Top(w).node, Top(w).i)

\* the ID-stack path of the row of the frame on top of the stack
WalkPath(w) == <<w.scene>> \o [k \in 1 .. Len(w.stack) |-> w.stack[k].node]

\* renderSceneGraph's loops over the scenes and over a scene's roots
RenderRootsNext(w) ==
  IF w.scene >= Len(Model.scenes)
  THEN Finish(w)
  ELSE IF w.r > Len(Model.scenes[w.scene + 1])
  THEN [w EXCEPT !.scene = @ + 1, !.r = 1]
  ELSE Call([w EXCEPT !.r = @ + 1], Model.scenes[w.scene + 1][w.r])

\* renderNode in the frame on top of the stack: TreeNodeEx, then the children of an open row
RenderFrameNext(w, nodeIndex, i) ==
  IF i = 0
  THEN IF WalkPath(w) \in imguiOpen \/ nodeIndex \in m_openNodes
       THEN SetTop(w, 1)
       ELSE Return(w, "none")
  ELSE IF i > Len(Model.nodes[nodeIndex].children)
  THEN Return(w, "none")
  ELSE Call(SetTop(w, i + 1), Callee(nodeIndex, i))

RenderNext(w) ==
  IF w.stack = <<>> THEN RenderRootsNext(w) ELSE RenderFrameNext(w, Top(w).node, Top(w).i)

\* selectNode(target) enters preprocessOpenNodes
StartSearch ==
  /\ walk.op = "idle"
  /\ \E t \in NodeIds : walk' = [IdleWalk EXCEPT !.op = "search", !.target = t]
  /\ UNCHANGED <<doc, nodes, lights, materials, m_selectType, m_selectedIndex, m_openNodes,
                 m_doScroll, m_changes, imguiOpen, lastOp, hist>>

\* render() enters renderSceneGraph
StartRender ==
  /\ walk.op = "idle"
  /\ walk' = [IdleWalk EXCEPT !.op = "render"]
  /\ UNCHANGED <<doc, nodes, lights, materials, m_selectType, m_selectedIndex, m_openNodes,
                 m_doScroll, m_changes, imguiOpen, lastOp, hist>>

\* the next call, return or loop step of the ancestor search
SearchStep ==
  /\ walk.op = "search"
  /\ walk' = SearchNext(walk)
  /\ Len(walk'.stack) <= MaxStack
  /\ UNCHANGED <<doc, nodes, lights, materials, m_selectType, m_selectedIndex, m_openNodes,
                 m_doScroll, m_changes, imguiOpen, lastOp, hist>>

\* the next call, return or loop step of the tree traversal
RenderStep ==
  /\ walk.op = "render"
  /\ walk' = RenderNext(walk)
  /\ Len(walk'.stack) <= MaxStack
  /\ UNCHANGED <<doc, nodes, lights, materials, m_selectType, m_selectedIndex, m_openNodes,
                 m_doScroll, m_changes, imguiOpen, lastOp, hist>>

----------------------------------------------------------------------------
(* Specifications *)

DefaultLight == [innerConeAngle |-> 0, outerConeAngle |-> 2]

AnyLight == [innerConeAngle : 0 .. MaxAngle, outerConeAngle : 0 .. MaxAngle]

\* the object after construction, over a loaded document
InitUI ==
  /\ walk = IdleWalk
  /\ m_selectType = "eNode"
  /\ m_selectedIndex = -1
  /\ m_openNodes = {}
  /\ m_doScroll = FALSE
  /\ m_changes = {}
  /\ lastOp = [op |-> "init", idx |-> -1, editor |-> "none", modif |-> FALSE, vis |-> FALSE,
               ext |-> "none", shown |-> NoTransform]
  /\ hist = [armed |-> FALSE, sinceSelect |-> 0, paintedSelect |-> FALSE,
             sinceChange |-> 0, paintedChange |-> FALSE, clicks |-> -1]

\* selection and tree: every document, the editors' controls untouched
Init ==
  /\ doc \in 1 .. Len(Docs)
  /\ lights = [i \in 0 .. Model.lights - 1 |-> DefaultLight]
  /\ materials = [i \in 0 .. Model.materials - 1 |-> Mat({})]
  /\ nodes = [i \in NodeIds |-> Model.nodes[i].xform]
  /\ imguiOpen = {}
  /\ InitUI

\* a call of selectNode from outside (picking)
SelectNode == \E i \in SelectInputs : selectNode(i)

\* a frame without input
Frame == \E ev \in {NoEvent} : render(ev, NoEdit)

\* a frame in which the user clicks a row (no expand/collapse toggle)
Click == \E ev \in ClickEvents : render(ev, NoEdit)

\* a frame in which the user expands or collapses a node or mesh row
Toggle == \E ev \in ToggleEvents : render(ev, NoEdit)

Next == SelectNode \/ Frame \/ Click \/ Toggle

Spec == Init /\ [][Next]_vars

\* the node and light editors: the small document with every stored light state, the
\* node rows open (the mesh rows collapsed: no primitive row is painted)
InitEdit ==
  /\ doc = 5
  /\ lights \in [0 .. Model.lights - 1 -> AnyLight]
  /\ materials = [i \in 0 .. Model.materials - 1 |-> Mat({})]
  /\ nodes = [i \in NodeIds |-> Model.nodes[i].xform]
  /\ imguiOpen = RowPaths
  /\ InitUI

\* a frame in which the user works a control of the detail panel (the mouse is on one
\* widget at a time: a frame with a row event reports no control change)
Edit ==
  \E ed \in EditorInputs(IF m_selectedIndex > -1 THEN m_selectType ELSE "none") :
    render(NoEvent, ed)

NextEdit == Edit \/ Click

SpecEdit == InitEdit /\ [][NextEdit]_vars

\* the extension blocks a loaded material comes with
ExtensionSets ==
  { {},
    {"KHR_materials_clearcoat"},
    {"KHR_materials_emissive_strength", "KHR_materials_dispersion"} }

\* the material editor next to the others: the single-node document, its material loaded
\* with any of the extension sets, every row open
InitMaterial ==
  /\ doc = 6
  /\ lights = [i \in 0 .. Model.lights - 1 |-> DefaultLight]
  /\ materials \in [0 .. Model.materials - 1 -> {Mat(S) : S \in ExtensionSets}]
  /\ nodes = [i \in NodeIds |-> Model.nodes[i].xform]
  /\ imguiOpen = RowPaths \cup {p \o <<-1>> : p \in RowPaths}
  /\ InitUI

\* the element counts a loaded node can come with
MatrixSizes == {0, 12, 16, 17}
TranslationSizes == {0, 2, 3, 4}
RotationSizes == {0, 3, 4, 5}
ScaleSizes == {0, 3, 4}

\* the node editor over any stored transform: the single-node document, its node loaded
\* with any of the element counts
InitTransform ==
  /\ doc = 6
  /\ lights = [i \in 0 .. Model.lights - 1 |-> DefaultLight]
  /\ materials = [i \in 0 .. Model.materials - 1 |-> Mat({})]
  /\ \E m \in MatrixSizes, t \in TranslationSizes, r \in RotationSizes, s \in ScaleSizes :
        nodes = [i \in NodeIds |-> Xf(m, t, r, s, "absent")]
  /\ imguiOpen = RowPaths
  /\ InitUI

\* selectNode and frames with the controls of the detail panel
NextTransform == SelectNode \/ Edit

SpecTransform == InitTransform /\ [][NextTransform]_vars

\* the traversals call by call: every document, every row open or every row collapsed
InitWalk ==
  /\ doc \in 1 .. Len(Docs)
  /\ lights = [i \in 0 .. Model.lights - 1 |-> DefaultLight]
  /\ materials = [i \in 0 .. Model.materials - 1 |-> Mat({})]
  /\ nodes = [i \in NodeIds |-> Model.nodes[i].xform]
  /\ imguiOpen \in {{}, RowPaths}
  /\ InitUI

NextWalk == StartSearch \/ StartRender \/ SearchStep \/ RenderStep

\* the UI thread runs a traversal it has entered to its end
SpecWalk == InitWalk /\ [][NextWalk]_vars /\ WF_vars(SearchStep) /\ WF_vars(RenderStep)

\* every operation of the object: selectNode, a frame with a row click, a frame with the
\* controls of the detail panel (all untouched in a frame without input)
NextMaterial == SelectNode \/ Click \/ Edit

SpecMaterial == InitMaterial /\ [][NextMaterial]_vars

----------------------------------------------------------------------------
(* The graph of the document, for stating the properties *)

Kids(S) == UNION {{Model.nodes[a].children[i] : i \in 1 .. Len(Model.nodes[a].children)} : a \in S}

RECURSIVE Closure(_, _)
Closure(S, n) == IF n = 0 THEN S ELSE Closure(S \cup Kids(S), n - 1)

\* the nodes reachable from a by one or more child references
Below(a) == Closure(Kids({a}), Cardinality(NodeIds))

\* the ancestors of x inside the subtree of root r
AncestorsWithin(r, x) == {a \in NodeIds : (a = r \/ a \in Below(r)) /\ x \in Below(a)}

FirstSceneRoots == Model.scenes[1]

\* the positions in the first scene's root list whose subtree holds x
RootsHolding(x) ==
  {i \in 1 .. Len(FirstSceneRoots) : FirstSceneRoots[i] = x \/ x \in Below(FirstSceneRoots[i])}

FirstRootHolding(x) ==
  FirstSceneRoots[CHOOSE i \in RootsHolding(x) : \A j \in RootsHolding(x) : i <= j]

\* the ancestors of x under the first root of the first scene that holds x (in the
\* documents of the model every root's subtree is a tree: these are the nodes of the one
\* path from that root to x, x excluded)
FirstScenePath(x) ==
  IF RootsHolding(x) = {} THEN {} ELSE AncestorsWithin(FirstRootHolding(x), x)

\* the root-to-x paths over all scenes, and the nodes of a path without its last
PathsTo(x) == {p \in RowPaths : p[Len(p)] = x}
PathNodes(p) == {p[i] : i \in 2 .. Len(p) - 1}

----------------------------------------------------------------------------
(* Properties *)

\* C1: a click on the row of node x that is no expand/collapse toggle sets Selection to
\* None when it was (Node, x) and to (Node, x) otherwise (also from a Material or Light
\* of the same index); a toggle leaves Selection unchanged; and after selectNode(x)
\* followed by k clicks on x, Selection is (Node, x) for even k and None for odd k, so
\* selectNode(x); click(x); click(x) ends with (Node, x).
C1_ClickTogglesSelection ==
  [][ /\ lastOp'.op = "clickNode" =>
           Selection' = IF Selection = <<"eNode", lastOp'.idx>>
                        THEN None ELSE <<"eNode", lastOp'.idx>>
      /\ lastOp'.op \in {"toggleNode", "toggleMesh"} => Selection' = Selection
      /\ hist'.clicks >= 0 =>
           Selection' = IF hist'.clicks % 2 = 0 THEN <<"eNode", lastOp'.idx>> ELSE None
    ]_vars

C1_Witness ==
  /\ lastOp.op = "clickNode"
  /\ hist.clicks = 2
  /\ Selection = <<"eNode", lastOp.idx>>

\* C2: after selectNode(index) Selection is (Node, index) for index >= 0 and None (the
\* detail panel runs no editor) for index < 0; the Open-Ancestor set keeps no member
\* that is not an ancestor of index, and is empty for index < 0; the scroll flag is set.
C2_SelectNode ==
  lastOp.op = "selectNode" =>
    /\ lastOp.idx >= 0 => Selection = <<"eNode", lastOp.idx>>
    /\ lastOp.idx < 0 =>
         /\ Selection = None
         /\ renderDetails(m_selectType, m_selectedIndex, NoEdit).editor = "none"
         /\ m_openNodes = {}
    /\ \A a \in m_openNodes : a \in NodeIds /\ lastOp.idx \in Below(a)
    /\ m_doScroll

C2_Witness ==
  /\ lastOp.op = "selectNode"
  /\ lastOp.idx < 0
  /\ imguiOpen # {}
  /\ m_openNodes = {}
  /\ Selection = None

\* C3: after selectNode(target), for a target with exactly one root-to-target path
\* (from the roots of any scene), the Open-Ancestor set is the set of the nodes of that
\* path without the target.
C3_AncestorPath ==
  (lastOp.op = "selectNode" /\ lastOp.idx >= 0 /\ Cardinality(PathsTo(lastOp.idx)) = 1) =>
    \A p \in PathsTo(lastOp.idx) : m_openNodes = PathNodes(p)

C5_Original ==
  m_openNodes = IF Selection # None /\ Selection[1] = "eNode"
                THEN FirstScenePath(Selection[2]) ELSE {}

\* C5 as amended: only selectNode resets and recomputes the Open-Ancestor set (to the
\* ancestors found for its argument, empty for a negative index); frames and row clicks
\* on nodes, primitives and lights leave it as it is.
C5_OnlySelectNodeRecomputes ==
  [][ /\ lastOp'.op # "selectNode" => m_openNodes' = m_openNodes
      /\ lastOp'.op = "selectNode" =>
           m_openNodes' = IF lastOp'.idx >= 0 THEN FirstScenePath(lastOp'.idx) ELSE {}
    ]_vars

C5_Witness ==
  /\ lastOp.op = "clickNode"
  /\ Selection # None
  /\ Selection[2] \in m_openNodes


\* C6 as claimed: after every change of Selection exactly one scroll request is issued,
\* in the first frame that paints the highlighted row, and none after it until the next
\* change.
C6_Original ==
  /\ hist.sinceChange <= 1
  /\ hist.paintedChange => hist.sinceChange = 1

\* C6 as amended: scroll-once holds per selectNode call.  Between two selectNode calls
\* (and before the first) at most one scroll request is issued; it is issued in the
\* first frame after the call that paints a highlighted selected-node row, which
\* consumes the flag; a change of Selection by a row click arms no request, and none is
\* issued before the first selectNode call.
C6_ScrollOncePerSelectNode ==
  /\ hist.sinceSelect <= 1
  /\ m_doScroll => (hist.armed /\ hist.sinceSelect = 0 /\ ~hist.paintedSelect)
  /\ (hist.armed /\ hist.paintedSelect) => (hist.sinceSelect = 1 /\ ~m_doScroll)
  /\ ~hist.armed => hist.sinceSelect = 0

C6_Witness ==
  /\ hist.armed
  /\ hist.sinceSelect = 1
  /\ lastOp.op = "clickNode"
  /\ hist.paintedChange
  /\ hist.sinceChange = 0

\* C7: a click on the row of a primitive with material index m, in a document with
\* L > 0 materials, sets Selection to (Material, c) with c the valid index nearest to m:
\* 0 for m < 0, L - 1 for m > L - 1, m otherwise.
C7_PrimitiveSelectsClampedMaterial ==
  lastOp.op = "clickPrim" =>
    /\ Model.materials > 0
    /\ m_selectType = "eMaterial"
    /\ m_selectedIndex \in 0 .. Model.materials - 1
    /\ lastOp.idx < 0 => m_selectedIndex = 0
    /\ lastOp.idx > Model.materials - 1 => m_selectedIndex = Model.materials - 1
    /\ lastOp.idx \in 0 .. Model.materials - 1 => m_selectedIndex = lastOp.idx
    /\ Selection = <<"eMaterial", m_selectedIndex>>

C7_Witness ==
  /\ lastOp.op = "clickPrim"
  /\ lastOp.idx < 0
  /\ Selection = <<"eMaterial", 0>>

\* C8 as claimed: a click on the row of light i selects (Light, i) and a click on the
\* row of camera j selects camera j.
C8_Original ==
  /\ lastOp.op = "clickLight" => Selection = <<"eLight", lastOp.idx>>
  /\ lastOp.op = "clickCamera" => Selection = <<"eCamera", lastOp.idx>>

\* C8 as amended: a click on the row of light i sets Selection to (Light, i); a camera
\* row has no click handler, a click on it leaves Selection as it was.
C8_LightSelectsCameraDoesNot ==
  [][ /\ lastOp'.op = "clickLight" => Selection' = <<"eLight", lastOp'.idx>>
      /\ lastOp'.op = "clickCamera" =>
           (m_selectType' = m_selectType /\ m_selectedIndex' = m_selectedIndex)
    ]_vars

C8_Witness ==
  /\ lastOp.op = "clickCamera"
  /\ Selection = <<"eLight", 0>>

\* C9: after every invocation of the light editor, whatever the stored angles were and
\* whichever cone slider was dragged to whatever value, the stored light has
\* innerConeAngle <= outerConeAngle.
C9_InnerLeOuter ==
  lastOp.editor = "eLight" =>
    lights[m_selectedIndex].innerConeAngle <= lights[m_selectedIndex].outerConeAngle

C9_Witness ==
  /\ lastOp.editor = "eLight"
  /\ lastOp.modif
  /\ "eLightDirty" \in m_changes
  /\ lights[m_selectedIndex].innerConeAngle = 2
  /\ lights[m_selectedIndex].outerConeAngle = 2

\* C10: after a frame in which a translation / rotation / scale control of the selected
\* node changed, the node's matrix is empty, its translation, rotation and scale hold
\* 3, 4 and 3 values, and the node-transform dirty flag is set.
C10_TransformEditClearsMatrix ==
  (lastOp.editor = "eNode" /\ lastOp.modif) =>
    /\ nodes[m_selectedIndex].matrix = 0
    /\ nodes[m_selectedIndex].translation = 3
    /\ nodes[m_selectedIndex].rotation = 4
    /\ nodes[m_selectedIndex].scale = 3
    /\ "eNodeTransformDirty" \in m_changes

C10_Witness ==
  /\ lastOp.editor = "eNode"
  /\ lastOp.modif
  /\ m_selectedIndex = 0
  /\ Model.nodes[0].xform.matrix = 16
  /\ Model.nodes[0].xform.translation = 0
  /\ nodes[0].matrix = 0

\* the dirty flags the controls of an editor can set
EditorFlags(editor) ==
  CASE editor = "eNode"     -> {"eNodeTransformDirty", "eNodeVisibleDirty"}
    [] editor = "eMaterial" -> {"eMaterialDirty"}
    [] editor = "eLight"    -> {"eLightDirty"}
    [] OTHER               -> {}

\* C11: no operation (selectNode, a frame with a row click, a frame with or without a
\* change in the detail editor) clears a dirty flag; a step changes no flag but those of
\* the editor that ran in it; a material edit sets material-dirty, a light edit
\* light-dirty, and a light edit after a material edit leaves both set.
C11_FlagsAccumulate ==
  [][ /\ m_changes \subseteq m_changes'
      /\ (m_changes' \ m_changes) \subseteq EditorFlags(lastOp'.editor)
      /\ (lastOp'.editor = "eMaterial" /\ lastOp'.modif) => "eMaterialDirty" \in m_changes'
      /\ (lastOp'.editor = "eLight" /\ lastOp'.modif) => "eLightDirty" \in m_changes'
      /\ ("eMaterialDirty" \in m_changes /\ lastOp'.editor = "eLight" /\ lastOp'.modif)
           => {"eMaterialDirty", "eLightDirty"} \subseteq m_changes'
    ]_vars

C11_Witness ==
  /\ lastOp.editor = "eLight"
  /\ lastOp.modif
  /\ m_changes = {"eMaterialDirty", "eLightDirty"}
  /\ materials[0].value = 1

\* some control of the editor that ran in the step reported a change
ControlChanged ==
  \/ lastOp'.modif
  \/ lastOp'.vis
  \/ (lastOp'.editor = "eMaterial" /\ lastOp'.ext \in materials[m_selectedIndex'].extensions)

\* C12: for each of the three detail editors, an invocation in which no control reports
\* a change leaves the nodes, materials and lights as stored and sets no dirty flag; an
\* invocation in which a control reports a change sets a dirty flag of that editor; and
\* no frame changes a node, material or light without a flag of its editor being set.
C12_EditorsWriteOnlyOnChange ==
  [][ lastOp'.editor # "none" =>
        /\ ~ControlChanged =>
             (nodes' = nodes /\ materials' = materials /\ lights' = lights
                /\ m_changes' = m_changes)
        /\ ControlChanged => EditorFlags(lastOp'.editor) \cap m_changes' # {}
        /\ nodes' # nodes => EditorFlags("eNode") \cap m_changes' # {}
        /\ materials' # materials => EditorFlags("eMaterial") \cap m_changes' # {}
        /\ lights' # lights => EditorFlags("eLight") \cap m_changes' # {}
    ]_vars

\* C13: no step changes the set of extension blocks of a material; in a frame of the
\* material editor the user's reach for the control of an absent block writes nothing (the
\* material changes only if a basic control changed, and then keeps its blocks); the
\* visibility block of a node is added only by the add button of the node editor, to the
\* selected node.
C13_ExtensionSetFixed ==
  [][ /\ \A i \in DOMAIN materials : materials'[i].extensions = materials[i].extensions
      /\ (lastOp'.editor = "eMaterial" /\ lastOp'.ext \notin materials[m_selectedIndex'].extensions) =>
           /\ lastOp'.ext \notin materials'[m_selectedIndex'].extensions
           /\ ~lastOp'.modif => (materials' = materials /\ m_changes' = m_changes)
      /\ \A n \in DOMAIN nodes :
           (nodes[n].visibility = "absent" /\ nodes'[n].visibility # "absent") =>
             (lastOp'.editor = "eNode" /\ lastOp'.vis /\ n = m_selectedIndex')
    ]_vars

C13_Witness ==
  /\ lastOp.editor = "eMaterial"
  /\ lastOp.ext = "KHR_materials_clearcoat"
  /\ lastOp.modif
  /\ materials[0] = [value |-> 1, extensions |-> {"KHR_materials_emissive_strength", "KHR_materials_dispersion"}]
  /\ "eMaterialDirty" \in m_changes
  /\ nodes[0].visibility = "visible"

\* C14: the working transform the node editor shows comes from the decomposition of the
\* matrix, all three parts, when the stored matrix has 16 elements, whatever the stored
\* translation / rotation / scale; with a matrix of any other length the translation is
\* the stored one when it has 3 elements and zero otherwise, the rotation the stored one
\* when it has 4 elements and the identity otherwise, the scale the stored one when it
\* has 3 elements and unit otherwise, each on its own.
C14_TransformRead ==
  [][ lastOp'.editor = "eNode" =>
        LET node == nodes[m_selectedIndex'] IN
        /\ node.matrix = 16 =>
             lastOp'.shown = [translation |-> "decomposed", rotation |-> "decomposed",
                              scale |-> "decomposed"]
        /\ node.matrix # 16 =>
             /\ lastOp'.shown.translation = "stored" <=> node.translation = 3
             /\ lastOp'.shown.translation = "zero" <=> node.translation # 3
             /\ lastOp'.shown.rotation = "stored" <=> node.rotation = 4
             /\ lastOp'.shown.rotation = "identity" <=> node.rotation # 4
             /\ lastOp'.shown.scale = "stored" <=> node.scale = 3
             /\ lastOp'.shown.scale = "unit" <=> node.scale # 3
    ]_vars

C14_Witness ==
  /\ lastOp.editor = "eNode"
  /\ ~lastOp.modif
  /\ nodes[0].matrix = 17
  /\ nodes[0].translation = 3
  /\ nodes[0].rotation = 5
  /\ nodes[0].scale = 4
  /\ lastOp.shown = [translation |-> "stored", rotation |-> "identity", scale |-> "unit"]

\* the number of nodes on the longest path from a root of any scene
GraphDepth ==
  LET lens == {Len(p) - 1 : p \in RowPaths} IN
  IF lens = {} THEN 0 ELSE CHOOSE d \in lens : \A e \in lens : e <= d

\* C15: in every document of the model (acyclic, indices in range) the call stack of
\* the tree traversal and of the ancestor search never holds more frames than the
\* longest root-to-leaf path has nodes, and every traversal that was entered ends.
C15_WalksTerminate ==
  /\ [](Len(walk.stack) <= GraphDepth /\ walk.peak <= GraphDepth)
  /\ ((walk.op # "idle") ~> (walk.op = "idle"))

C15_Witness ==
  /\ doc = 1
  /\ walk.op = "idle"
  /\ walk.target = 2
  /\ walk.peak = 3
  /\ GraphDepth = 3
  /\ walk.open = preprocessOpenNodes("eNode", 2)
  /\ walk.open = {0, 1}

\* C16: in every state reached by selectNode calls and frames with row clicks, over
\* documents with at least one material, whenever the detail panel dispatches
\* (m_selectedIndex > -1) the index is one of the array of the selected kind: a node
\* index for eNode, a material index for eMaterial, a light index for eLight.
C16_SelectionConsistent ==
  m_selectedIndex > -1 =>
    /\ m_selectType \in {"eNode", "eMaterial", "eLight"}
    /\ m_selectType = "eNode" => m_selectedIndex \in NodeIds
    /\ m_selectType = "eMaterial" => m_selectedIndex \in 0 .. Model.materials - 1
    /\ m_selectType = "eLight" => m_selectedIndex \in 0 .. Model.lights - 1
    /\ renderDetails(m_selectType, m_selectedIndex, NoEdit).editor = m_selectType
    /\ lastOp.editor # "out of range"

C16_Witness ==
  /\ doc = 1
  /\ lastOp.op = "clickNode"
  /\ lastOp.editor = "eNode"
  /\ Selection = <<"eNode", 4>>
  /\ Model.materials = 2
  /\ Model.lights = 1
  /\ "eMaterialDirty" \notin m_changes

====
